---- MODULE Spec2Model ----
(***************************************************************************)
(* Model of the stack definition program src/main.go: one linear routine   *)
(* (the callback handed to pulumi.Run) that reads the site directory,      *)
(* looks up the DNS zone and registers a fixed graph of resources with the *)
(* provisioning context, returning at the first error.                     *)
(*                                                                         *)
(* The provisioning engine and the file system are the environment: each   *)
(* call the routine makes is recorded in `calls` together with the error   *)
(* the environment answered with.  Resource attributes (bucket.ID(),       *)
(* certificate.Arn, ...) are outputs of the engine; they are modelled as   *)
(* references naming the resource and the attribute.                       *)
(***************************************************************************)
EXTENDS Integers, Sequences, FiniteSets, TLC

\* ------------------------------------------------------------------ bounds
\* Largest number of entries a directory listing holds.
MaxFiles == 2
\* Largest number of validation options the engine gives a certificate.
MaxValidationOptions == 2

\* ------------------------------------------------------------- environment
Nil == "nil"
\* Errors the file system or the engine may answer a call with.
Errors == {"errA", "errB"}
\* Zone identifiers the engine may answer the lookup with.
ZoneIds == {"Z1", "Z2"}

\* Values of the configuration literals the run is checked for.
Projects == {"stratusLabs", "www", "AAA", "wwwA"}
Environments == {"dev", "prod", "", "Prod", "production"}
Domains == {"stratuslabs.net", "example.com"}

\* The entries the site directory may hold, in the order os.ReadDir lists
\* them (sorted by file name); css is a subdirectory.
AllEntries ==
  << [name |-> "css", isDir |-> TRUE],
     [name |-> "error.html", isDir |-> FALSE],
     [name |-> "index.html", isDir |-> FALSE],
     [name |-> "logo.png", isDir |-> FALSE] >>

RECURSIVE Pick(_, _)
\* The entries of AllEntries at the positions in S, from position i on, in
\* listing order.
Pick(S, i) ==
  IF i > Len(AllEntries) THEN << >>
  ELSE IF i \in S THEN << AllEntries[i] >> \o Pick(S, i + 1)
  ELSE Pick(S, i + 1)

\* Every listing os.ReadDir can return: distinct names, sorted.
Listings ==
  { Pick(S, 1) : S \in { T \in SUBSET (1 .. Len(AllEntries)) : Cardinality(T) <= MaxFiles } }

\* ------------------------------------------------------- resource handles
NoResource == [type |-> "", name |-> ""]
Resource(type, name) == [type |-> type, name |-> name]

\* An output of a registered resource: a reference to attribute attr of res.
Attr(res, attr) == res.type \o "::" \o res.name \o "." \o attr

\* Array-output indexing and field projection (Index(i).Field().Elem()): a
\* reference resolved by the engine, not a value read at declaration time.
IndexOf(out, i) == out \o "[" \o ToString(i) \o "]"
FieldOf(out, field) == out \o "." \o field

BucketType == "aws:s3/bucket:Bucket"
PublicAccessBlockType == "aws:s3/bucketPublicAccessBlock:BucketPublicAccessBlock"
BucketObjectType == "aws:s3/bucketObject:BucketObject"
CertificateType == "aws:acm/certificate:Certificate"
RecordType == "aws:route53/record:Record"
OriginAccessIdentityType == "aws:cloudfront/originAccessIdentity:OriginAccessIdentity"
DistributionType == "aws:cloudfront/distribution:Distribution"
BucketPolicyType == "aws:s3/bucketPolicy:BucketPolicy"

\* ------------------------------------------------ names and derived values
\* Variant of PriceClassOf whose default branch takes the global tier.
PriceClassOfDefaultAll(env) ==
  CASE env = "dev" -> "PriceClass_100"
    [] env = "prod" -> "PriceClass_All"
    [] OTHER -> "PriceClass_All"

\* The switch over environment.name.
PriceClassOf(env) ==
  CASE env = "dev" -> "PriceClass_100"
    [] env = "prod" -> "PriceClass_All"
    [] OTHER -> "PriceClass_100"

\* fmt.Sprintf("www.%s", domain.name)
WwwName(d) == "www." \o d

SiteDir == "./www/_site"
\* fmt.Sprintf("%s/", site.dir)
ReadDirPath(dir) == dir \o "/"

\* Logical names of the registered resources.
BucketLogicalName(p) == p \o "Bucket"
PublicAccessBlockLogicalName(p) == p \o "BucketNoPublic"
ObjectLogicalName(file) == file.name
CertificateLogicalName(p) == p \o "Cert"
\* fmt.Sprintf("%sCname%d", project.name, i)
CnameLogicalName(p, i) == p \o "Cname" \o ToString(i)
OriginAccessIdentityLogicalName(p) == p \o "OriginAccessId"
DistributionLogicalName(p) == p \o "Distribution"
\* fmt.Sprintf("%s%s", project.name, record)
ApexAliasLogicalName(p, record) == p \o record
\* Variant of WwwAliasLogicalName that drops the www prefix.
WwwAliasLogicalNameNoPrefix(p, record) == p \o record

\* fmt.Sprintf("www%s%s", project.name, record)
WwwAliasLogicalName(p, record) == "www" \o p \o record
BucketPolicyLogicalName(d) == d \o "BucketPolicy"

\* The record types the alias loop ranges over.
RecordTypes == << "A", "AAAA" >>
\* The last index of the validation-record loop (for i := 0; i <= 1; i++).
LastCnameIndex == 1

\* ------------------------------------------------------ declaration args
BucketArgs(w, t) ==
  [ Bucket |-> w.name,
    IndexDocument |-> w.indexDocument,
    ErrorDocument |-> w.errorDocument,
    Tags |-> t ]

PublicAccessBlockArgs(b) ==
  [ Bucket |-> Attr(b, "id"),
    BlockPublicAcls |-> TRUE,
    BlockPublicPolicy |-> TRUE,
    IgnorePublicAcls |-> TRUE,
    RestrictPublicBuckets |-> TRUE ]

\* Variant of ObjectSource that joins without the separator.
ObjectSourceNoSeparator(dir, file) == dir \o file.name

\* fmt.Sprintf("%s/%s", site.dir, file.Name())
ObjectSource(dir, file) == dir \o "/" \o file.name

ObjectArgs(b, dir, file, t) ==
  [ Key |-> file.name,
    Bucket |-> Attr(b, "id"),
    Source |-> ObjectSource(dir, file),
    ContentType |-> "text/html",
    Tags |-> t ]

CertificateArgs(d, t) ==
  [ DomainName |-> d,
    ValidationMethod |-> "DNS",
    SubjectAlternativeNames |-> << WwwName(d) >>,
    Tags |-> t ]

\* certificate.DomainValidationOptions.Index(pulumi.Int(i)).<Field>().Elem()
ValidationOption(cert, i, field) ==
  FieldOf(IndexOf(Attr(cert, "domainValidationOptions"), i), field)

\* Variant of CnameArgs whose value reads the record-name field again.
CnameArgsNameAsValue(zone, cert, i) ==
  [ ZoneId |-> zone.Id,
    Name |-> ValidationOption(cert, i, "resourceRecordName"),
    Type |-> "CNAME",
    Ttl |-> 60,
    Records |-> << ValidationOption(cert, i, "resourceRecordName") >> ]

CnameArgs(zone, cert, i) ==
  [ ZoneId |-> zone.Id,
    Name |-> ValidationOption(cert, i, "resourceRecordName"),
    Type |-> "CNAME",
    Ttl |-> 60,
    Records |-> << ValidationOption(cert, i, "resourceRecordValue") >> ]

OriginAccessIdentityArgs(p) == [ Comment |-> p ]

DistributionOrigins(b, oai) ==
  << [ DomainName |-> Attr(b, "bucketRegionalDomainName"),
       OriginId |-> Attr(b, "id"),
       OriginAccessIdentity |-> Attr(oai, "cloudfrontAccessIdentityPath") ] >>

DefaultCacheBehavior(b) ==
  [ AllowedMethods |-> << "GET", "HEAD" >>,
    CachedMethods |-> << "GET", "HEAD" >>,
    TargetOriginId |-> Attr(b, "id"),
    QueryString |-> FALSE,
    CookiesForward |-> "none",
    ViewerProtocolPolicy |-> "redirect-to-https",
    MinTtl |-> 0,
    DefaultTtl |-> 3600,
    MaxTtl |-> 86400 ]

ViewerCertificate(cert) ==
  [ CloudfrontDefaultCertificate |-> FALSE,
    AcmCertificateArn |-> Attr(cert, "arn"),
    SslSupportMethod |-> "sni-only",
    MinimumProtocolVersion |-> "TLSv1.2_2021" ]

DistributionArgs(b, oai, cert, d, pc, t) ==
  [ Origins |-> DistributionOrigins(b, oai),
    Enabled |-> TRUE,
    HttpVersion |-> "http2and3",
    IsIpv6Enabled |-> TRUE,
    DefaultRootObject |-> "index.html",
    Aliases |-> << d, WwwName(d) >>,
    DefaultCacheBehavior |-> DefaultCacheBehavior(b),
    PriceClass |-> pc,
    GeoRestrictionType |-> "none",
    ViewerCertificate |-> ViewerCertificate(cert),
    Tags |-> t ]

\* The single alias of an alias record.
AliasTarget(dist) ==
  << [ Name |-> Attr(dist, "domainName"),
       ZoneId |-> Attr(dist, "hostedZoneId"),
       EvaluateTargetHealth |-> TRUE ] >>

ApexAliasArgs(zone, d, record, dist) ==
  [ ZoneId |-> zone.Id,
    Name |-> d,
    Type |-> record,
    Aliases |-> AliasTarget(dist) ]

\* Variant of WwwAliasArgs that names the bare domain.
WwwAliasArgsBareName(zone, d, record, dist) ==
  [ ZoneId |-> zone.Id,
    Name |-> d,
    Type |-> record,
    Aliases |-> AliasTarget(dist) ]

WwwAliasArgs(zone, d, record, dist) ==
  [ ZoneId |-> zone.Id,
    Name |-> WwwName(d),
    Type |-> record,
    Aliases |-> AliasTarget(dist) ]

\* Variant of PolicyResource that names the bucket itself, not its objects.
PolicyResourceBucketOnly(b) == Attr(b, "arn")

\* pulumi.Sprintf("%v/*", bucket.Arn)
PolicyResource(b) == Attr(b, "arn") \o "/*"

PolicyStatements(b, oai) ==
  << [ Sid |-> "1",
       Principals |-> << [ Type |-> "AWS",
                           Identifiers |-> << Attr(oai, "iamArn") >> ] >>,
       Actions |-> << "s3:GetObject" >>,
       Resources |-> << PolicyResource(b) >> ] >>

PolicyDocumentArgs(b, oai) ==
  [ PolicyId |-> "PolicyForCloudFrontPrivateContent",
    Version |-> "2008-10-17",
    Statements |-> PolicyStatements(b, oai) ]

\* The result of the policy-document invoke: its Json renders the arguments.
PolicyDocumentResult(args) == [ Json |-> args ]
NoPolicyDocument ==
  [ Json |-> [ PolicyId |-> "", Version |-> "", Statements |-> << >> ] ]

BucketPolicyArgs(b, doc) ==
  [ Bucket |-> Attr(b, "id"),
    Policy |-> doc.Json ]

\* Variant of ExportBindings that binds both outputs to the bucket.
ExportBindingsBothBucket(b, dist) ==
  << [ name |-> "bucketName", value |-> Attr(b, "id") ],
     [ name |-> "cloudFrontDist", value |-> Attr(b, "id") ] >>

\* ctx.Export(name, value), in call order.
ExportBindings(b, dist) ==
  << [ name |-> "bucketName", value |-> Attr(b, "id") ],
     [ name |-> "cloudFrontDist", value |-> Attr(dist, "id") ] >>

\* ------------------------------------------------------------ control flow
\* The statements of the routine in source order; objects, cname, apexAlias
\* and wwwAlias are loop bodies.
ProgramOrder ==
  << "config", "readDir", "lookupZone", "bucket", "publicAccessBlock",
     "objects", "certificate", "cname", "originAccessId", "distribution",
     "apexAlias", "wwwAlias", "policyDocument", "bucketPolicy", "export",
     "done" >>

\* Variant of the order with the bucket policy placed in the S3 section,
\* ahead of the CloudFront declarations.
PolicyEarlyOrder ==
  << "config", "readDir", "lookupZone", "bucket", "publicAccessBlock",
     "objects", "policyDocument", "bucketPolicy", "certificate", "cname",
     "originAccessId", "distribution", "apexAlias", "wwwAlias", "export",
     "done" >>

StepAfterPolicyEarly(step) ==
  LET k == CHOOSE j \in 1 .. Len(PolicyEarlyOrder) : PolicyEarlyOrder[j] = step
  IN  IF k < Len(PolicyEarlyOrder) THEN PolicyEarlyOrder[k + 1] ELSE "done"

\* The statement that follows step in source order.
StepAfter(step) ==
  LET k == CHOOSE j \in 1 .. Len(ProgramOrder) : ProgramOrder[j] = step
  IN  IF k < Len(ProgramOrder) THEN ProgramOrder[k + 1] ELSE "done"

\* Falling through to the next statement; a range loop over no files has no
\* iteration.
FallThrough(step, fs) ==
  LET n == StepAfter(step)
  IN  IF n = "objects" /\ Len(fs) = 0 THEN StepAfter(n) ELSE n

NotReturned == "running"

\* Variant of Outcome without the error check: the routine goes on.
OutcomeErrorIgnored(e, next) == [ pc |-> next, returned |-> NotReturned ]

\* if err != nil { return err }: where control goes and what the routine has
\* returned after a call answered e.
Outcome(e, next) ==
  IF e = Nil THEN [ pc |-> next, returned |-> NotReturned ]
  ELSE [ pc |-> "done", returned |-> e ]

\* What a call that returns (value, err) leaves in the value.
Result(e, value, none) == IF e = Nil THEN value ELSE none

\* ------------------------------------------------------------------- state
VARIABLES
  project, environment, domain,   \* the configuration literals
  tags, priceClass, wb,           \* values derived from them
  files, domainZone, bucket, certificate, originAccessId, cloudFrontDist,
  bucketPolicy,                   \* results of the calls
  fileIdx, i, recordIdx,          \* loop positions
  pc, returned,                   \* position in the routine, its return value
  calls, exports,                 \* calls made on the context, stack outputs
  validationOptionCount           \* options the engine gives the certificate

vars ==
  << project, environment, domain, tags, priceClass, wb, files, domainZone,
     bucket, certificate, originAccessId, cloudFrontDist, bucketPolicy,
     fileIdx, i, recordIdx, pc, returned, calls, exports,
     validationOptionCount >>

config == << project, environment, domain >>
derived == << tags, priceClass, wb >>
loops == << fileIdx, i, recordIdx >>

NoZone == [ Id |-> "" ]
NoTags == [ project |-> "", environment |-> "" ]
NoWebBucket == [ name |-> "", indexDocument |-> "", errorDocument |-> "" ]

Init ==
  /\ project \in Projects
  /\ environment \in Environments
  /\ domain \in Domains
  /\ tags = NoTags
  /\ priceClass = ""
  /\ wb = NoWebBucket
  /\ files = << >>
  /\ domainZone = NoZone
  /\ bucket = NoResource
  /\ certificate = NoResource
  /\ originAccessId = NoResource
  /\ cloudFrontDist = NoResource
  /\ bucketPolicy = NoPolicyDocument
  /\ fileIdx = 1
  /\ i = 0
  /\ recordIdx = 1
  /\ pc = "config"
  /\ returned = NotReturned
  /\ calls = << >>
  /\ exports = << >>
  /\ validationOptionCount = 0

\* One call on the file system or the provisioning context, with its answer.
Call(op, type, name, args, e) ==
  [ op |-> op, type |-> type, name |-> name, args |-> args, err |-> e ]

\* A resource registration (s3.NewBucket, route53.NewRecord, ...).
Register(type, name, args, e) ==
  calls' = Append(calls, Call("register", type, name, args, e))

\* Control after a call answered e: return e, or go on at next.
Goto(e, next) ==
  /\ pc' = Outcome(e, next).pc
  /\ returned' = Outcome(e, next).returned

Answers == Errors \cup { Nil }

\* ----------------------------------------------------------------- actions
\* Project variables, price class and web bucket settings.
Configure ==
  /\ pc = "config"
  /\ tags' = [ project |-> project, environment |-> environment ]
  /\ priceClass' = PriceClassOf(environment)
  /\ wb' = [ name |-> WwwName(domain),
             indexDocument |-> "index.html",
             errorDocument |-> "error.html" ]
  /\ pc' = StepAfter("config")
  /\ UNCHANGED << config, files, domainZone, bucket, certificate,
                  originAccessId, cloudFrontDist, bucketPolicy, loops,
                  returned, calls, exports, validationOptionCount >>

\* files, err := os.ReadDir(...)
ReadDir ==
  /\ pc = "readDir"
  /\ \E e \in Answers, listing \in Listings :
       /\ (e # Nil => listing = << >>)
       /\ files' = listing
       /\ calls' = Append(calls,
            Call("readDir", "", ReadDirPath(SiteDir), [ path |-> ReadDirPath(SiteDir) ], e))
       /\ Goto(e, FallThrough("readDir", listing))
  /\ UNCHANGED << config, derived, domainZone, bucket, certificate,
                  originAccessId, cloudFrontDist, bucketPolicy, loops,
                  exports, validationOptionCount >>

\* domainZone, err := route53.LookupZone(...)
LookupZone ==
  /\ pc = "lookupZone"
  /\ \E e \in Answers, id \in ZoneIds :
       /\ domainZone' = Result(e, [ Id |-> id ], NoZone)
       /\ calls' = Append(calls,
            Call("lookupZone", "", domain, [ Name |-> domain ], e))
       /\ Goto(e, FallThrough("lookupZone", files))
  /\ UNCHANGED << config, derived, files, bucket, certificate,
                  originAccessId, cloudFrontDist, bucketPolicy, loops,
                  exports, validationOptionCount >>

\* bucket, err := s3.NewBucket(...)
NewBucket ==
  /\ pc = "bucket"
  /\ \E e \in Answers :
       /\ bucket' = Result(e, Resource(BucketType, BucketLogicalName(project)), NoResource)
       /\ Register(BucketType, BucketLogicalName(project), BucketArgs(wb, tags), e)
       /\ Goto(e, FallThrough("bucket", files))
  /\ UNCHANGED << config, derived, files, domainZone, certificate,
                  originAccessId, cloudFrontDist, bucketPolicy, loops,
                  exports, validationOptionCount >>

\* _, err = s3.NewBucketPublicAccessBlock(...)
NewBucketPublicAccessBlock ==
  /\ pc = "publicAccessBlock"
  /\ \E e \in Answers :
       /\ Register(PublicAccessBlockType, PublicAccessBlockLogicalName(project),
                   PublicAccessBlockArgs(bucket), e)
       /\ Goto(e, FallThrough("publicAccessBlock", files))
  /\ UNCHANGED << config, derived, files, domainZone, bucket, certificate,
                  originAccessId, cloudFrontDist, bucketPolicy, loops,
                  exports, validationOptionCount >>

\* One iteration of the upload loop: s3.NewBucketObject for files[fileIdx].
NewBucketObject ==
  /\ pc = "objects"
  /\ fileIdx <= Len(files)
  /\ \E e \in Answers :
       /\ Register(BucketObjectType, ObjectLogicalName(files[fileIdx]),
                   ObjectArgs(bucket, SiteDir, files[fileIdx], tags), e)
       /\ Goto(e, IF fileIdx < Len(files) THEN "objects"
                  ELSE FallThrough("objects", files))
       /\ fileIdx' = IF e = Nil THEN fileIdx + 1 ELSE fileIdx
  /\ UNCHANGED << config, derived, files, domainZone, bucket, certificate,
                  originAccessId, cloudFrontDist, bucketPolicy, i, recordIdx,
                  exports, validationOptionCount >>

\* certificate, err := acm.NewCertificate(...); the engine decides how many
\* validation options the certificate exposes.
NewCertificate ==
  /\ pc = "certificate"
  /\ \E e \in Answers, n \in 0 .. MaxValidationOptions :
       /\ (e # Nil => n = 0)
       /\ validationOptionCount' = n
       /\ certificate' = Result(e, Resource(CertificateType, CertificateLogicalName(project)),
                                NoResource)
       /\ Register(CertificateType, CertificateLogicalName(project),
                   CertificateArgs(domain, tags), e)
       /\ Goto(e, FallThrough("certificate", files))
  /\ UNCHANGED << config, derived, files, domainZone, bucket,
                  originAccessId, cloudFrontDist, bucketPolicy, loops,
                  exports >>

\* One iteration of the validation-record loop: route53.NewRecord for index i.
NewCnameRecord ==
  /\ pc = "cname"
  /\ i <= LastCnameIndex
  /\ \E e \in Answers :
       /\ Register(RecordType, CnameLogicalName(project, i),
                   CnameArgs(domainZone, certificate, i), e)
       /\ Goto(e, IF i < LastCnameIndex THEN "cname"
                  ELSE FallThrough("cname", files))
       /\ i' = IF e = Nil THEN i + 1 ELSE i
  /\ UNCHANGED << config, derived, files, domainZone, bucket, certificate,
                  originAccessId, cloudFrontDist, bucketPolicy, fileIdx,
                  recordIdx, exports, validationOptionCount >>

\* originAccessId, err := cloudfront.NewOriginAccessIdentity(...)
NewOriginAccessIdentity ==
  /\ pc = "originAccessId"
  /\ \E e \in Answers :
       /\ originAccessId' =
            Result(e, Resource(OriginAccessIdentityType,
                               OriginAccessIdentityLogicalName(project)), NoResource)
       /\ Register(OriginAccessIdentityType, OriginAccessIdentityLogicalName(project),
                   OriginAccessIdentityArgs(project), e)
       /\ Goto(e, FallThrough("originAccessId", files))
  /\ UNCHANGED << config, derived, files, domainZone, bucket, certificate,
                  cloudFrontDist, bucketPolicy, loops, exports,
                  validationOptionCount >>

\* cloudFrontDist, err := cloudfront.NewDistribution(...)
NewDistribution ==
  /\ pc = "distribution"
  /\ \E e \in Answers :
       /\ cloudFrontDist' =
            Result(e, Resource(DistributionType, DistributionLogicalName(project)),
                   NoResource)
       /\ Register(DistributionType, DistributionLogicalName(project),
                   DistributionArgs(bucket, originAccessId, certificate, domain,
                                    priceClass, tags), e)
       /\ Goto(e, FallThrough("distribution", files))
  /\ UNCHANGED << config, derived, files, domainZone, bucket, certificate,
                  originAccessId, bucketPolicy, loops, exports,
                  validationOptionCount >>

\* First call of an alias-loop iteration: the record for the bare domain.
NewApexAliasRecord ==
  /\ pc = "apexAlias"
  /\ recordIdx <= Len(RecordTypes)
  /\ \E e \in Answers :
       /\ Register(RecordType, ApexAliasLogicalName(project, RecordTypes[recordIdx]),
                   ApexAliasArgs(domainZone, domain, RecordTypes[recordIdx],
                                 cloudFrontDist), e)
       /\ Goto(e, FallThrough("apexAlias", files))
  /\ UNCHANGED << config, derived, files, domainZone, bucket, certificate,
                  originAccessId, cloudFrontDist, bucketPolicy, loops,
                  exports, validationOptionCount >>

\* Second call of an alias-loop iteration: the record for the www name.
NewWwwAliasRecord ==
  /\ pc = "wwwAlias"
  /\ recordIdx <= Len(RecordTypes)
  /\ \E e \in Answers :
       /\ Register(RecordType, WwwAliasLogicalName(project, RecordTypes[recordIdx]),
                   WwwAliasArgs(domainZone, domain, RecordTypes[recordIdx],
                                cloudFrontDist), e)
       /\ Goto(e, IF recordIdx < Len(RecordTypes) THEN "apexAlias"
                  ELSE FallThrough("wwwAlias", files))
       /\ recordIdx' = IF e = Nil THEN recordIdx + 1 ELSE recordIdx
  /\ UNCHANGED << config, derived, files, domainZone, bucket, certificate,
                  originAccessId, cloudFrontDist, bucketPolicy, fileIdx, i,
                  exports, validationOptionCount >>

\* bucketPolicy := iam.GetPolicyDocumentOutput(...): returns no error.
GetPolicyDocument ==
  /\ pc = "policyDocument"
  /\ bucketPolicy' = PolicyDocumentResult(PolicyDocumentArgs(bucket, originAccessId))
  /\ calls' = Append(calls,
       Call("getPolicyDocument", "", "", PolicyDocumentArgs(bucket, originAccessId), Nil))
  /\ pc' = FallThrough("policyDocument", files)
  /\ UNCHANGED << config, derived, files, domainZone, bucket, certificate,
                  originAccessId, cloudFrontDist, loops, returned, exports,
                  validationOptionCount >>

\* _, err = s3.NewBucketPolicy(...)
NewBucketPolicy ==
  /\ pc = "bucketPolicy"
  /\ \E e \in Answers :
       /\ Register(BucketPolicyType, BucketPolicyLogicalName(domain),
                   BucketPolicyArgs(bucket, bucketPolicy), e)
       /\ Goto(e, FallThrough("bucketPolicy", files))
  /\ UNCHANGED << config, derived, files, domainZone, bucket, certificate,
                  originAccessId, cloudFrontDist, bucketPolicy, loops,
                  exports, validationOptionCount >>

\* ctx.Export twice, then return nil.
Export ==
  /\ pc = "export"
  /\ exports' = ExportBindings(bucket, cloudFrontDist)
  /\ returned' = Nil
  /\ pc' = FallThrough("export", files)
  /\ UNCHANGED << config, derived, files, domainZone, bucket, certificate,
                  originAccessId, cloudFrontDist, bucketPolicy, loops, calls,
                  validationOptionCount >>

Next ==
  \/ Configure
  \/ ReadDir
  \/ LookupZone
  \/ NewBucket
  \/ NewBucketPublicAccessBlock
  \/ NewBucketObject
  \/ NewCertificate
  \/ NewCnameRecord
  \/ NewOriginAccessIdentity
  \/ NewDistribution
  \/ NewApexAliasRecord
  \/ NewWwwAliasRecord
  \/ GetPolicyDocument
  \/ NewBucketPolicy
  \/ Export

Spec == Init /\ [][Next]_vars

\* ------------------------------------------------- reading the call record
CallIdx == 1 .. Len(calls)

IsRegister(c, type) == c.op = "register" /\ c.type = type
IsObjectCall(c) == IsRegister(c, BucketObjectType)
IsCnameCall(c) == IsRegister(c, RecordType) /\ c.args.Type = "CNAME"
IsAliasCall(c) == IsRegister(c, RecordType) /\ c.args.Type # "CNAME"
IsLookup(c) == c.op = "lookupZone"

\* The positions of the registrations of one resource type.
Registrations(type) == { j \in CallIdx : IsRegister(calls[j], type) }
Declared(type) == Registrations(type) # {}

\* The handle the engine gives the resource registered by call c.
HandleOf(c) == Resource(c.type, c.name)

\* A successful call of the given kind precedes position j.
OkBefore(j, op, type) ==
  \E k \in 1 .. (j - 1) :
    calls[k].op = op /\ calls[k].type = type /\ calls[k].err = Nil

Succeeded == returned = Nil
Aborted == returned \in Errors

\* ----------------------------------------------------------------- C1
\* C1: first-error-wins.  A call that answered an error is the last call the
\* run makes, the run has returned that very error and exported nothing; a
\* failed directory read is the only call of its run; when the k-th upload
\* fails exactly k-1 object registrations succeeded before it and nothing
\* that follows the upload loop was registered.
FirstErrorWins ==
  /\ \A j \in CallIdx :
       calls[j].err # Nil =>
         /\ j = Len(calls)
         /\ pc = "done"
         /\ returned = calls[j].err
         /\ exports = << >>
  /\ Aborted => (calls # << >> /\ calls[Len(calls)].err = returned)
  /\ \A j \in CallIdx :
       (calls[j].op = "readDir" /\ calls[j].err # Nil) => Len(calls) = 1
  /\ \A j \in CallIdx :
       (IsObjectCall(calls[j]) /\ calls[j].err # Nil) =>
         \E k \in 1 .. Len(files) :
           /\ files[k].name = calls[j].name
           /\ Cardinality({ m \in Registrations(BucketObjectType) :
                              calls[m].err = Nil }) = k - 1
           /\ ~ Declared(CertificateType)
           /\ ~ Declared(RecordType)
           /\ ~ Declared(OriginAccessIdentityType)
           /\ ~ Declared(DistributionType)
           /\ ~ Declared(BucketPolicyType)

\* A run in which the second upload failed after the first succeeded.
SecondUploadFailed ==
  /\ Len(calls) >= 2
  /\ IsObjectCall(calls[Len(calls)])
  /\ calls[Len(calls)].err = "errB"
  /\ IsObjectCall(calls[Len(calls) - 1])
  /\ calls[Len(calls) - 1].err = Nil
  /\ returned = "errB"

\* ----------------------------------------------------------------- C2
ExpectedPriceClass(env) ==
  IF env = "prod" THEN "PriceClass_All" ELSE "PriceClass_100"

\* C2: price-class resolution yields PriceClass_100 for dev, PriceClass_All
\* for prod and PriceClass_100 for every other environment name, never
\* fails, and its value is the price class of the distribution declaration.
PriceClassTotal ==
  /\ pc # "config" =>
       /\ priceClass = ExpectedPriceClass(environment)
       /\ calls = << >> => returned = NotReturned
  /\ \A j \in Registrations(DistributionType) :
       calls[j].args.PriceClass = ExpectedPriceClass(environment)

\* A distribution declared for a near-miss spelling of prod.
NearMissDistribution ==
  /\ environment = "Prod"
  /\ \E j \in Registrations(DistributionType) :
       calls[j].args.PriceClass = "PriceClass_100" /\ calls[j].err = Nil

\* ----------------------------------------------------------------- C3
\* C3: dependency ordering.  Every registration made, in successful and in
\* aborted runs, comes after the successful lookup or registration of each
\* of its prerequisites: zone before DNS records; bucket before the
\* public-access block, objects, distribution and bucket policy;
\* certificate before validation records and distribution; origin-access
\* identity before distribution and bucket policy; distribution before the
\* alias records.
DependencyOrdering ==
  \A j \in CallIdx :
    LET c == calls[j] IN
    /\ IsRegister(c, RecordType) => OkBefore(j, "lookupZone", "")
    /\ (c.op = "register" /\ c.type \in { PublicAccessBlockType, BucketObjectType,
                                           DistributionType, BucketPolicyType })
         => OkBefore(j, "register", BucketType)
    /\ (IsCnameCall(c) \/ IsRegister(c, DistributionType))
         => OkBefore(j, "register", CertificateType)
    /\ (c.op = "register" /\ c.type \in { DistributionType, BucketPolicyType })
         => OkBefore(j, "register", OriginAccessIdentityType)
    /\ IsAliasCall(c) => OkBefore(j, "register", DistributionType)

\* A run that registered every kind of resource, objects included.
EverythingDeclared ==
  /\ Declared(BucketObjectType)
  /\ Declared(PublicAccessBlockType)
  /\ \E j \in CallIdx : IsCnameCall(calls[j])
  /\ \E j \in CallIdx : IsAliasCall(calls[j])
  /\ Declared(DistributionType)
  /\ Declared(BucketPolicyType)

\* ----------------------------------------------------------------- C4
\* The run has left the upload loop.
PastUploadLoop == pc = "certificate" \/ Declared(CertificateType)

ObjectCalls == SelectSeq(calls, IsObjectCall)
BucketCall == calls[CHOOSE j \in CallIdx : IsRegister(calls[j], BucketType)]

\* C4: a run that gets past the upload loop has made exactly one object
\* registration per entry of the listing, in listing order, each with the
\* entry name as key, "<site dir>/<name>" as source, the declared bucket's
\* identifier as bucket and content type text/html; subdirectory entries
\* are registered like files and an empty listing yields no registration.
ObjectsMirrorListing ==
  PastUploadLoop =>
    /\ Len(ObjectCalls) = Len(files)
    /\ \A k \in 1 .. Len(files) :
         LET c == ObjectCalls[k] IN
         /\ c.err = Nil
         /\ c.args.Key = files[k].name
         /\ c.args.Source = "./www/_site/" \o files[k].name
         /\ c.args.Bucket = Attr(HandleOf(BucketCall), "id")
         /\ c.args.ContentType = "text/html"

\* Past the loop with a two-entry listing that holds a subdirectory.
SubdirectoryUploaded ==
  /\ PastUploadLoop
  /\ Len(files) = 2
  /\ files[1].isDir
  /\ Len(ObjectCalls) = 2

\* ----------------------------------------------------------------- C5
AliasCalls == SelectSeq(calls, IsAliasCall)
DistributionCall ==
  calls[CHOOSE j \in CallIdx : IsRegister(calls[j], DistributionType)]

\* C5: a successful run has registered exactly 4 alias records whose
\* (type, name) pairs are (A, domain), (AAAA, domain), (A, www.domain),
\* (AAAA, www.domain), none repeated; each is in the looked-up zone and has
\* one alias, to the declared distribution's domain name and hosted-zone
\* id, with target-health evaluation on.
FourAliasRecords ==
  Succeeded =>
    /\ Len(AliasCalls) = 4
    /\ { << AliasCalls[k].args.Type, AliasCalls[k].args.Name >> : k \in 1 .. 4 }
         = { << "A", domain >>, << "AAAA", domain >>,
             << "A", "www." \o domain >>, << "AAAA", "www." \o domain >> }
    /\ \A k \in 1 .. 4 :
         LET a == AliasCalls[k].args IN
         /\ a.ZoneId = domainZone.Id
         /\ domainZone.Id \in ZoneIds
         /\ Len(a.Aliases) = 1
         /\ a.Aliases[1].Name = Attr(HandleOf(DistributionCall), "domainName")
         /\ a.Aliases[1].ZoneId = Attr(HandleOf(DistributionCall), "hostedZoneId")
         /\ a.Aliases[1].EvaluateTargetHealth

\* A successful run.
RunSucceeded == Succeeded /\ Len(AliasCalls) = 4

\* ----------------------------------------------------------------- C6
CnameCalls == SelectSeq(calls, IsCnameCall)
CertificateCall ==
  calls[CHOOSE j \in CallIdx : IsRegister(calls[j], CertificateType)]
PastValidation == pc = "originAccessId" \/ Declared(OriginAccessIdentityType)

\* C6: the certificate is registered with the domain as its name, DNS
\* validation and the subject-alternative-name set {www.<domain>}; a run
\* past the validation step has registered exactly 2 CNAME records, for
\* indices 0 and 1, record i taking its name and its single value from the
\* certificate's validation option i, in the looked-up zone.
CertificateAndValidation ==
  /\ \A j \in Registrations(CertificateType) :
       /\ calls[j].args.DomainName = domain
       /\ calls[j].args.ValidationMethod = "DNS"
       /\ { calls[j].args.SubjectAlternativeNames[k] :
              k \in 1 .. Len(calls[j].args.SubjectAlternativeNames) }
            = { "www." \o domain }
  /\ PastValidation =>
       /\ Len(CnameCalls) = 2
       /\ \A k \in 0 .. 1 :
            LET a == CnameCalls[k + 1].args
                opt == IndexOf(Attr(HandleOf(CertificateCall), "domainValidationOptions"), k)
            IN  /\ a.Name = FieldOf(opt, "resourceRecordName")
                /\ a.Records = << FieldOf(opt, "resourceRecordValue") >>
                /\ a.ZoneId = domainZone.Id
                /\ CnameCalls[k + 1].err = Nil

\* Past the validation step with both validation records registered.
ValidationDone == PastValidation /\ Len(CnameCalls) = 2

\* ----------------------------------------------------------------- C7
\* Every call a complete run makes has been made and has succeeded.
AllCallsSucceeded ==
  /\ \A j \in CallIdx : calls[j].err = Nil
  /\ \E j \in CallIdx : calls[j].op = "readDir"
  /\ \E j \in CallIdx : IsLookup(calls[j])
  /\ Declared(BucketType)
  /\ Declared(PublicAccessBlockType)
  /\ Len(ObjectCalls) = Len(files)
  /\ Declared(CertificateType)
  /\ Len(CnameCalls) = 2
  /\ Declared(OriginAccessIdentityType)
  /\ Declared(DistributionType)
  /\ Len(AliasCalls) = 4
  /\ Declared(BucketPolicyType)

\* C7: outputs are exported only after every lookup and registration,
\* the bucket policy included, has succeeded; a successful run exports
\* exactly bucketName = the bucket's identifier and cloudFrontDist = the
\* distribution's identifier; an aborted run exports nothing.
OutputsOnlyOnSuccess ==
  /\ exports # << >> => (Succeeded /\ AllCallsSucceeded)
  /\ Succeeded =>
       /\ Len(exports) = 2
       /\ { exports[k] : k \in 1 .. 2 }
            = { [ name |-> "bucketName", value |-> Attr(HandleOf(BucketCall), "id") ],
                [ name |-> "cloudFrontDist",
                  value |-> Attr(HandleOf(DistributionCall), "id") ] }
  /\ Aborted => exports = << >>

\* A successful run with its two outputs.
OutputsExported == Succeeded /\ Len(exports) = 2

\* ----------------------------------------------------------------- C8
OriginAccessIdentityCall ==
  calls[CHOOSE j \in CallIdx : IsRegister(calls[j], OriginAccessIdentityType)]
BucketPolicyCall ==
  calls[CHOOSE j \in CallIdx : IsRegister(calls[j], BucketPolicyType)]
PublicAccessBlockCall ==
  calls[CHOOSE j \in CallIdx : IsRegister(calls[j], PublicAccessBlockType)]

\* C8: single authorization path.  In a successful run the distribution has
\* exactly one origin, the bucket's regional domain name gated by the
\* origin-access identity's path, and the default cache behaviour targets
\* that origin's id; the policy attached to the same bucket has exactly one
\* statement with the single action s3:GetObject, the single principal the
\* identity's IAM ARN and the single resource "<bucket ARN>/*"; the
\* public-access block, all four flags true, references the same bucket.
SingleAuthorizationPath ==
  Succeeded =>
    LET b == HandleOf(BucketCall)
        oai == HandleOf(OriginAccessIdentityCall)
        d == DistributionCall.args
        p == BucketPolicyCall.args
        pab == PublicAccessBlockCall.args
    IN  /\ Len(d.Origins) = 1
        /\ d.Origins[1].DomainName = Attr(b, "bucketRegionalDomainName")
        /\ d.Origins[1].OriginAccessIdentity = Attr(oai, "cloudfrontAccessIdentityPath")
        /\ d.DefaultCacheBehavior.TargetOriginId = d.Origins[1].OriginId
        /\ p.Bucket = Attr(b, "id")
        /\ Len(p.Policy.Statements) = 1
        /\ p.Policy.Statements[1].Actions = << "s3:GetObject" >>
        /\ Len(p.Policy.Statements[1].Principals) = 1
        /\ p.Policy.Statements[1].Principals[1].Identifiers = << Attr(oai, "iamArn") >>
        /\ p.Policy.Statements[1].Resources = << Attr(b, "arn") \o "/*" >>
        /\ pab.Bucket = Attr(b, "id")
        /\ pab.BlockPublicAcls
        /\ pab.BlockPublicPolicy
        /\ pab.IgnorePublicAcls
        /\ pab.RestrictPublicBuckets
        /\ Cardinality(Registrations(BucketType)) = 1
        /\ Cardinality(Registrations(OriginAccessIdentityType)) = 1

\* A successful run whose policy has been attached.
PolicyAttached == Succeeded /\ Declared(BucketPolicyType) /\ Declared(DistributionType)

\* ----------------------------------------------------------------- C9
\* The index a validation record reads exceeds the options the certificate
\* exposes.
ShapeMismatch ==
  /\ certificate # NoResource
  /\ validationOptionCount <= LastCnameIndex
  /\ Len(CnameCalls) > validationOptionCount

\* C9: when the certificate exposes fewer validation options than the
\* index read (fewer than 2), the run aborts with an error: no
\* origin-access identity, distribution, alias record or bucket policy is
\* registered and nothing is exported.
ShapeMismatchAborts ==
  ShapeMismatch =>
    /\ ~ Declared(OriginAccessIdentityType)
    /\ ~ Declared(DistributionType)
    /\ Len(AliasCalls) = 0
    /\ ~ Declared(BucketPolicyType)
    /\ exports = << >>
    /\ returned # Nil

\* ----------------------------------------------------------------- C10
\* C10: no two registrations of one resource type carry the same logical
\* name and no lookup or registration step is attempted twice; the six DNS
\* record names <project>Cname0, <project>Cname1, <project>A,
\* <project>AAAA, www<project>A, www<project>AAAA are pairwise distinct, and
\* the object names are the (distinct) entry names.
LogicalNamesUnique ==
  /\ \A j, k \in CallIdx :
       (j # k /\ calls[j].op = calls[k].op /\ calls[j].type = calls[k].type)
         => calls[j].name # calls[k].name
  /\ Cardinality({ j \in CallIdx : calls[j].op = "readDir" }) <= 1
  /\ Cardinality({ j \in CallIdx : IsLookup(calls[j]) }) <= 1
  /\ Cardinality({ j \in CallIdx : calls[j].op = "getPolicyDocument" }) <= 1
  /\ \A j \in Registrations(RecordType) :
       calls[j].name \in
         { project \o "Cname0", project \o "Cname1", project \o "A",
           project \o "AAAA", "www" \o project \o "A", "www" \o project \o "AAAA" }
  /\ Succeeded =>
       /\ Cardinality({ calls[j].name : j \in Registrations(RecordType) }) = 6
       /\ Cardinality(Registrations(RecordType)) = 6
  /\ \A k \in 1 .. Len(ObjectCalls) : ObjectCalls[k].name = files[k].name

\* A successful run for a project name that begins with www and ends in A.
SixRecordsDeclared ==
  /\ Succeeded
  /\ project = "wwwA"
  /\ Cardinality(Registrations(RecordType)) = 6
  /\ Len(ObjectCalls) = 2

====
